---- MODULE Spec2Model ----
(***************************************************************************)
(* Meal-ordering form: the four variants of App.tsx as one state machine.  *)
(*   "dropdown"  src/App.tsx 1-704       two week slots, week dropdown     *)
(*   "single"    src/App.tsx 705-925     one week, Stepper controls        *)
(*   "fetched"   src/App.tsx 926-2093    two slots, menus.json fetched     *)
(*   "bundled"   src/unnamed/part_000    two slots, menus.json bundled     *)
(* The variant and the menus.json file are fixed at Init; every action is  *)
(* one UI event handler (or one settled await) together with the effects   *)
(* React runs after it.                                                    *)
(*   Spec        the form: every handler that changes the order            *)
(*   SpecLoad    the fetched variant with the awaits of loadMenus settling *)
(*   SpecSend    sendWhatsApp() and the handlers whose state it reads      *)
(*   SpecAdjust  scripted changeQty calls on one cell                      *)
(***************************************************************************)
EXTENDS Integers, Sequences, FiniteSets, TLC

VARIABLES
    variant,        \* which App.tsx is running
    menusJson,      \* the menus.json file of the deployment
    name, notes,    \* text fields, as sequences of characters
    weekA, weekB, useWeekB,
    qtyA, qtyB,
    weekPickerOpen, \* "none" (null) | "A" | "B"
    menusByWeek, menusLoaded,   \* fetched variant: loaded catalog
    loadPc, cancelled,          \* fetched variant: loadMenus() position, cleanup flag
    week, order, vegan, lowCarb,\* single variant
    alert,          \* title of the Alert.alert raised by the latest handler, "" if none
    calls, ncalls,  \* a scripted sequence of changeQty calls and how many were made
    sendPc,         \* the await sendWhatsApp() is suspended at, "idle" if none
    opens,          \* Linking.openURL calls issued by the latest press of the send button
    opened          \* the openURL call of the latest press resolved

vars == <<variant, menusJson, name, notes, weekA, weekB, useWeekB, qtyA, qtyB,
          weekPickerOpen, menusByWeek, menusLoaded, loadPc, cancelled,
          week, order, vegan, lowCarb, alert, calls, ncalls, sendPc, opens, opened>>

(***************************************************************************)
(* Bounds of the model.                                                    *)
(***************************************************************************)
\* '+' presses are accepted while fewer than MaxMeals meals are ordered in all grids
MaxMeals == 2
\* week numbers 0..MaxLowWeek (and those around 48) are offered as inputs
MaxLowWeek == 3
\* the single variant's week Stepper has no upper limit; presses stop here
WeekCap == 50
\* length of a scripted sequence of changeQty calls
MaxCalls == 4

(***************************************************************************)
(* Program constants.                                                      *)
(***************************************************************************)
BASE_PRICE == 90
LOW_CARB_EXTRA == 10
MEAL_PRICE == 90
PRICE_MEAT == 90
PRICE_VEG == 90
PRICE_LOW_CARB == 100
DEFAULT_BASE_PRICE == 90
DEFAULT_LOW_CARB_EXTRA == 10
MAX_WEEK == 48

Variants == {"dropdown", "single", "fetched", "bundled"}
TwoSlot == {"dropdown", "fetched", "bundled"}

DAYS == <<"Monday", "Tuesday", "Wednesday", "Thursday", "Friday">>
MEAL_TYPES == <<"Meat", "Veg", "Low Carb">>
DayFields == <<"meat", "veg">>

Range(s) == {s[i] : i \in DOMAIN s}

DaySet == Range(DAYS)
MealSet == Range(MEAL_TYPES)
FieldSet == Range(DayFields)

WEEK_OPTIONS == [i \in 1..MAX_WEEK |-> i]

Max(a, b) == IF a > b THEN a ELSE b
Min(a, b) == IF a < b THEN a ELSE b

emptyWeekQuantities == [d \in DaySet |-> [m \in MealSet |-> 0]]
emptyWeek == [d \in DaySet |-> [f \in FieldSet |-> 0]]

(***************************************************************************)
(* Inputs offered to the handlers.                                         *)
(***************************************************************************)
\* the cells whose '+' and '-' buttons are pressed: <<which, day, meal>>, <<day, field>>
CellInputs ==
    {<<"A", "Monday", "Meat">>, <<"A", "Friday", "Low Carb">>,
     <<"B", "Wednesday", "Veg">>, <<"B", "Friday", "Low Carb">>}
FieldCellInputs == {<<"Monday", "meat">>, <<"Friday", "veg">>}
WeekInputs == (0..MaxLowWeek) \cup ((MAX_WEEK - 1)..(MAX_WEEK + 1))
NameInputs == {<<>>, <<"A", "n", "n">>}
NotesInputs == {<<>>, <<" ", "o", "k">>}
DeltaInputs == {-2, -1, 1, 2}

(***************************************************************************)
(* menus.json: week key -> entry.  An optional field is a sequence of      *)
(* length 0 (absent) or 1.                                                 *)
(***************************************************************************)
\* `days` maps the days the file describes to the items it gives for them
NoDays == [d \in {} |-> [m \in {} |-> [name |-> "", description |-> ""]]]
SomeDays ==
    ("Monday" :> ("Meat" :> [name |-> "Beef stew", description |-> "with rice"]))
    @@ ("Wednesday" :> ("Veg" :> [name |-> "", description |-> "soup of the day"]))
Plain ==
    [price |-> <<>>, lowCarbExtra |-> <<>>, title |-> "", dateRange |-> <<>>, days |-> NoDays]
Dated == [Plain EXCEPT !.title = "Summer", !.dateRange = <<"5-9 Jan">>, !.days = SomeDays]
NoMenus == [k \in {} |-> Plain]
MenusTwo ==
    ("2" :> Plain) @@ ("3" :> [Dated EXCEPT !.price = <<100>>, !.lowCarbExtra = <<20>>])
MenusTwoPlain == ("2" :> Plain) @@ ("3" :> Dated)
MenusOne == ("3" :> [Plain EXCEPT !.price = <<80>>])
MenusOnePlain == ("3" :> Plain)
MenusTop == ("47" :> Plain) @@ ("48" :> Plain)
MenusGap == ("1" :> Plain) @@ ("3" :> Dated)
MenusOut == ("0" :> Plain) @@ ("49" :> Plain) @@ ("note" :> Plain)

\* WeeklyMenu of the fetched variant has no pricing fields; the bundled one has
MenusFiles(v) ==
    CASE v = "fetched" -> {NoMenus, MenusTwoPlain, MenusOnePlain, MenusTop}
      [] v = "bundled" -> {NoMenus, MenusTwo, MenusOne, MenusOut}
      [] OTHER -> {NoMenus}

\* Number(k) for the keys above: a finite number or NaN
Number(k) ==
    CASE k = "0" -> [finite |-> TRUE, val |-> 0]
      [] k = "1" -> [finite |-> TRUE, val |-> 1]
      [] k = "2" -> [finite |-> TRUE, val |-> 2]
      [] k = "3" -> [finite |-> TRUE, val |-> 3]
      [] k = "47" -> [finite |-> TRUE, val |-> 47]
      [] k = "48" -> [finite |-> TRUE, val |-> 48]
      [] k = "49" -> [finite |-> TRUE, val |-> 49]
      [] OTHER -> [finite |-> FALSE, val |-> 0]

RECURSIVE ObjectKeys(_)
ObjectKeys(obj) ==
    IF DOMAIN obj = {} THEN <<>>
    ELSE LET k == CHOOSE x \in DOMAIN obj : TRUE
         IN <<k>> \o ObjectKeys([y \in DOMAIN obj \ {k} |-> obj[y]])

RECURSIVE InsertSorted(_, _)
InsertSorted(s, n) ==
    IF s = <<>> THEN <<n>>
    ELSE IF n < Head(s) THEN <<n>> \o s
    ELSE <<Head(s)>> \o InsertSorted(Tail(s), n)

RECURSIVE SortAscending(_)
SortAscending(s) ==
    IF s = <<>> THEN <<>> ELSE InsertSorted(SortAscending(Tail(s)), Head(s))

RECURSIVE FiniteNumbers(_)
FiniteNumbers(keys) ==
    IF keys = <<>> THEN <<>>
    ELSE LET n == Number(Head(keys))
         IN (IF n.finite THEN <<n.val>> ELSE <<>>) \o FiniteNumbers(Tail(keys))

\* Object.keys(menus).map(Number).filter(Number.isFinite).sort((a, b) => a - b)
WeekNumbers(menus) == SortAscending(FiniteNumbers(ObjectKeys(menus)))

\* the menus the running variant reads
Menus == IF variant = "fetched" THEN menusByWeek ELSE menusJson

availableWeeksOf(v, menus) ==
    LET nums == WeekNumbers(menus)
    IN IF v = "bundled" /\ nums = <<>> THEN WEEK_OPTIONS ELSE nums

availableWeeks == availableWeeksOf(variant, Menus)
availableWeekSet == Range(availableWeeks)

\* Array.prototype.find: <<first element satisfying the test>> or <<>> (undefined)
RECURSIVE FindOther(_, _)
FindOther(s, w) ==
    IF s = <<>> THEN <<>>
    ELSE IF Head(s) # w THEN <<Head(s)>> ELSE FindOther(Tail(s), w)

\* menusByWeek[weekNumber] ?? menusByWeek[String(weekNumber)]: <<entry>> or <<>> (null)
getMenuForWeek(weekNumber) ==
    IF ToString(weekNumber) \in DOMAIN Menus THEN <<Menus[ToString(weekNumber)]>> ELSE <<>>

getPricingForWeek(weekNumber) ==
    LET m == getMenuForWeek(weekNumber)
    IN [basePrice |-> IF m # <<>> /\ m[1].price # <<>> THEN m[1].price[1]
                      ELSE DEFAULT_BASE_PRICE,
        lowCarbExtra |-> IF m # <<>> /\ m[1].lowCarbExtra # <<>> THEN m[1].lowCarbExtra[1]
                         ELSE DEFAULT_LOW_CARB_EXTRA]

(***************************************************************************)
(* Derived totals.                                                         *)
(***************************************************************************)
RECURSIVE SumMeals(_, _, _)
SumMeals(row, meals, i) ==
    IF i > Len(meals) THEN 0 ELSE row[meals[i]] + SumMeals(row, meals, i + 1)

RECURSIVE SumDays(_, _, _)
SumDays(quantities, meals, i) ==
    IF i > Len(DAYS) THEN 0
    ELSE SumMeals(quantities[DAYS[i]], meals, 1) + SumDays(quantities, meals, i + 1)

\* the meal count leaving out the Low Carb column
sumWeekMeals_noLowCarb(quantities) == SumDays(quantities, <<"Meat", "Veg">>, 1)

\* for (const d of DAYS) for (const m of MEAL_TYPES) total += quantities[d][m]
sumWeekMeals(quantities) == SumDays(quantities, MEAL_TYPES, 1)

RECURSIVE CostMeals(_, _, _, _)
CostMeals(row, basePrice, lowCarbExtra, i) ==
    IF i > Len(MEAL_TYPES) THEN 0
    ELSE LET m == MEAL_TYPES[i]
             price == IF m = "Low Carb" THEN basePrice + lowCarbExtra ELSE basePrice
         IN row[m] * price + CostMeals(row, basePrice, lowCarbExtra, i + 1)

RECURSIVE CostDays(_, _, _, _)
CostDays(quantities, basePrice, lowCarbExtra, i) ==
    IF i > Len(DAYS) THEN 0
    ELSE CostMeals(quantities[DAYS[i]], basePrice, lowCarbExtra, 1)
         + CostDays(quantities, basePrice, lowCarbExtra, i + 1)

\* bundled variant: prices are parameters; dropdown variant: the two constants
sumWeekCost(quantities, basePrice, lowCarbExtra) ==
    CostDays(quantities, basePrice, lowCarbExtra, 1)

priceFor(meal) ==
    IF meal = "Meat" THEN PRICE_MEAT
    ELSE IF meal = "Veg" THEN PRICE_VEG
    ELSE PRICE_LOW_CARB

RECURSIVE FetchedCostMeals(_, _)
FetchedCostMeals(row, i) ==
    IF i > Len(MEAL_TYPES) THEN 0
    ELSE row[MEAL_TYPES[i]] * priceFor(MEAL_TYPES[i]) + FetchedCostMeals(row, i + 1)

RECURSIVE FetchedCostDays(_, _)
FetchedCostDays(qty, i) ==
    IF i > Len(DAYS) THEN 0
    ELSE FetchedCostMeals(qty[DAYS[i]], 1) + FetchedCostDays(qty, i + 1)

\* fetched variant: total += qty[day][meal] * priceFor(meal)
sumWeekCostFetched(qty) == FetchedCostDays(qty, 1)

\* the cost of one slot's grid as the running variant computes it
slotCost(quantities, weekNumber) ==
    CASE variant = "dropdown" -> sumWeekCost(quantities, BASE_PRICE, LOW_CARB_EXTRA)
      [] variant = "fetched" -> sumWeekCostFetched(quantities)
      [] OTHER -> sumWeekCost(quantities, getPricingForWeek(weekNumber).basePrice,
                              getPricingForWeek(weekNumber).lowCarbExtra)

weekATotalMeals == sumWeekMeals(qtyA)

\* week B's meals counted whether or not week B is in use
weekBTotalMeals_always == sumWeekMeals(qtyB)

weekBTotalMeals == IF useWeekB THEN sumWeekMeals(qtyB) ELSE 0
weekATotalCost == slotCost(qtyA, weekA)

\* week B's grid priced with week A's pricing
weekBTotalCost_pricedAsA == IF useWeekB THEN slotCost(qtyB, weekA) ELSE 0

weekBTotalCost == IF useWeekB THEN slotCost(qtyB, weekB) ELSE 0

\* single variant: totals = useMemo(...)
totals ==
    LET n == SumDays(order, DayFields, 1)
    IN [totalMeals |-> n, totalCost |-> n * MEAL_PRICE]

totalMeals ==
    IF variant = "single" THEN totals.totalMeals ELSE weekATotalMeals + weekBTotalMeals
totalCost ==
    IF variant = "single" THEN totals.totalCost ELSE weekATotalCost + weekBTotalCost

(***************************************************************************)
(* Quantity changes.                                                       *)
(***************************************************************************)
\* clamp0 without its clamp
clamp0_identity(n) == n

clamp0(n) == IF n < 0 THEN 0 ELSE n

\* the updater adding delta without clamping the result
changeQtyUpdate_unclamped(prev, day, meal, delta) ==
    [prev EXCEPT ![day][meal] = @ + delta]

\* the updater passed to setQtyA / setQtyB
changeQtyUpdate(prev, day, meal, delta) ==
    IF variant = "fetched"
    THEN [prev EXCEPT ![day][meal] = Max(0, @ + delta)]
    ELSE [prev EXCEPT ![day][meal] = clamp0(@ + delta)]

\* changeQty applying the updater to both grids
changeQty_bothGrids(which, day, meal, delta) ==
    /\ qtyA' = changeQtyUpdate(qtyA, day, meal, delta)
    /\ qtyB' = changeQtyUpdate(qtyB, day, meal, delta)

changeQty(which, day, meal, delta) ==
    /\ qtyA' = IF which = "A" THEN changeQtyUpdate(qtyA, day, meal, delta) ELSE qtyA
    /\ qtyB' = IF which = "B" THEN changeQtyUpdate(qtyB, day, meal, delta) ELSE qtyB

\* single variant: Stepper's onChange value and updateDay
StepperValue(value, delta) == IF delta < 0 THEN Max(0, value - 1) ELSE value + 1

updateDay(day, field, value) == order' = [order EXCEPT ![day][field] = value]

\* which week blocks are on screen (their steppers can be pressed)
WeekBlockShown(which) ==
    \/ which = "A"
    \/ /\ which = "B"
       /\ useWeekB
       /\ variant = "fetched" => weekB # weekA

Mounted == ~cancelled

fixedVars == <<variant, menusJson>>
textVars == <<name, notes>>
weekVars == <<weekA, weekB, useWeekB>>
gridVars == <<qtyA, qtyB>>
loadVars == <<menusByWeek, menusLoaded, loadPc, cancelled>>
singleVars == <<week, order, vegan, lowCarb>>
scriptVars == <<calls, ncalls>>
sendVars == <<sendPc, opens, opened>>

\* a '+' or '-' press on a cell of a week block
PressQty(which, day, meal, delta) ==
    /\ variant \in TwoSlot /\ Mounted
    /\ WeekBlockShown(which)
    /\ changeQty(which, day, meal, delta)
    /\ alert' = ""
    /\ delta > 0 => sumWeekMeals(qtyA) + sumWeekMeals(qtyB) < MaxMeals
    /\ UNCHANGED <<fixedVars, textVars, weekVars, weekPickerOpen, loadVars, singleVars,
                   scriptVars, sendVars>>

PressDayStepper(day, field, delta) ==
    /\ variant = "single"
    /\ updateDay(day, field, StepperValue(order[day][field], delta))
    /\ alert' = ""
    /\ delta > 0 => totals.totalMeals < MaxMeals
    /\ UNCHANGED <<fixedVars, textVars, weekVars, gridVars, weekPickerOpen, loadVars,
                   week, vegan, lowCarb, scriptVars, sendVars>>

PressWeekStepper(delta) ==
    /\ variant = "single"
    /\ delta > 0 => week < WeekCap
    /\ week' = StepperValue(week, delta)
    /\ alert' = ""
    /\ UNCHANGED <<fixedVars, textVars, weekVars, gridVars, weekPickerOpen, loadVars,
                   order, vegan, lowCarb, scriptVars, sendVars>>

SetVegan ==
    /\ variant = "single"
    /\ vegan' = ~vegan
    /\ alert' = ""
    /\ UNCHANGED <<fixedVars, textVars, weekVars, gridVars, weekPickerOpen, loadVars,
                   week, order, lowCarb, scriptVars, sendVars>>

SetLowCarb ==
    /\ variant = "single"
    /\ lowCarb' = ~lowCarb
    /\ alert' = ""
    /\ UNCHANGED <<fixedVars, textVars, weekVars, gridVars, weekPickerOpen, loadVars,
                   week, order, vegan, scriptVars, sendVars>>

SetName(text) ==
    /\ Mounted
    /\ name' = text
    /\ alert' = ""
    /\ UNCHANGED <<fixedVars, notes, weekVars, gridVars, weekPickerOpen, loadVars,
                   singleVars, scriptVars, sendVars>>

SetNotes(text) ==
    /\ variant \in TwoSlot /\ Mounted
    /\ notes' = text
    /\ alert' = ""
    /\ UNCHANGED <<fixedVars, name, weekVars, gridVars, weekPickerOpen, loadVars,
                   singleVars, scriptVars, sendVars>>

(***************************************************************************)
(* Week selection.                                                         *)
(***************************************************************************)
\* a value is truthy in `if (next)`: defined and not 0
Truthy(found) == found # <<>> /\ found[1] # 0

\* pickWeek closing the picker on every path, the rejected one included
pickWeek_closesOnReject(which, value) ==
    /\ weekPickerOpen' = "none"
    /\ IF which = "A"
       THEN IF useWeekB /\ value = weekB
            THEN alert' = "Not allowed" /\ UNCHANGED <<weekA, weekB>>
            ELSE weekA' = value /\ alert' = "" /\ UNCHANGED weekB
       ELSE IF value = weekA
            THEN alert' = "Not allowed" /\ UNCHANGED <<weekA, weekB>>
            ELSE weekB' = value /\ alert' = "" /\ UNCHANGED weekA

\* dropdown and bundled variants: pickWeek(which, value)
pickWeek(which, value) ==
    IF which = "A"
    THEN IF useWeekB /\ value = weekB
         THEN /\ alert' = "Not allowed"
              /\ UNCHANGED <<weekA, weekB, weekPickerOpen>>
         ELSE /\ weekA' = value
              /\ weekB' = IF /\ variant = "bundled"
                             /\ useWeekB
                             /\ (weekB \notin availableWeekSet \/ weekB = value)
                             /\ Truthy(FindOther(availableWeeks, value))
                          THEN FindOther(availableWeeks, value)[1]
                          ELSE weekB
              /\ weekPickerOpen' = "none"
              /\ alert' = ""
    ELSE IF value = weekA
         THEN /\ alert' = "Not allowed"
              /\ UNCHANGED <<weekA, weekB, weekPickerOpen>>
         ELSE /\ weekB' = value
              /\ weekPickerOpen' = "none"
              /\ alert' = ""
              /\ UNCHANGED weekA

\* the list the week picker shows
PickerItems == IF variant = "dropdown" THEN Range(WEEK_OPTIONS) ELSE availableWeekSet

\* WeekPickerModal: the row of `item` is greyed out and ignores presses
PickerItemDisabled(item) ==
    LET other == IF weekPickerOpen = "A" THEN weekB ELSE weekA
        otherEnabled == IF weekPickerOpen = "A" THEN useWeekB ELSE TRUE
    IN otherEnabled /\ item = other

openWeekPicker(which) ==
    /\ variant \in {"dropdown", "bundled"}
    /\ which = "B" => useWeekB
    /\ weekPickerOpen = "none"
    /\ weekPickerOpen' = which
    /\ alert' = ""
    /\ UNCHANGED <<fixedVars, textVars, weekVars, gridVars, loadVars, singleVars, scriptVars, sendVars>>

CloseWeekPicker ==
    /\ variant \in {"dropdown", "bundled"}
    /\ weekPickerOpen # "none"
    /\ weekPickerOpen' = "none"
    /\ alert' = ""
    /\ UNCHANGED <<fixedVars, textVars, weekVars, gridVars, loadVars, singleVars, scriptVars, sendVars>>

\* onPress={() => !disabled && pickWeek(which, item)}
PressWeekItem(item) ==
    /\ variant \in {"dropdown", "bundled"}
    /\ weekPickerOpen # "none"
    /\ item \in PickerItems
    /\ IF PickerItemDisabled(item)
       THEN alert' = "" /\ UNCHANGED <<weekA, weekB, weekPickerOpen>>
       ELSE pickWeek(weekPickerOpen, item)
    /\ UNCHANGED <<fixedVars, textVars, useWeekB, gridVars, loadVars, singleVars, scriptVars, sendVars>>

\* fetched variant
clampWeek(n) == Min(MAX_WEEK, Max(1, n))

\* setWeekSafely moving the other slot whether or not biweekly is enabled
setWeekSafely_alwaysResolves(which, n) ==
    LET next == clampWeek(n)
        alt == FindOther(availableWeeks, next)
    IN IF Len(availableWeeks) > 0 /\ next \notin availableWeekSet
       THEN /\ alert' = "Menu not available"
            /\ UNCHANGED <<weekA, weekB>>
       ELSE /\ alert' = ""
            /\ IF which = "A"
               THEN /\ weekB' = IF next = weekB /\ Len(availableWeeks) > 1 /\ alt # <<>>
                                THEN alt[1] ELSE weekB
                    /\ weekA' = next
               ELSE /\ weekA' = IF next = weekA /\ Len(availableWeeks) > 1 /\ alt # <<>>
                                THEN alt[1] ELSE weekA
                    /\ weekB' = next

\* setWeekSafely testing membership without looking at availableWeeks.length
setWeekSafely_needsCatalog(which, n) ==
    LET next == clampWeek(n)
    IN IF next \notin availableWeekSet
       THEN /\ alert' = "Menu not available"
            /\ UNCHANGED <<weekA, weekB>>
       ELSE /\ alert' = ""
            /\ weekA' = IF which = "A" THEN next ELSE weekA
            /\ weekB' = IF which = "B" THEN next ELSE weekB

\* setWeekSafely resolving a collision for slot A only
setWeekSafely_resolvesOnlyA(which, n) ==
    LET next == clampWeek(n)
        alt == FindOther(availableWeeks, next)
    IN IF Len(availableWeeks) > 0 /\ next \notin availableWeekSet
       THEN /\ alert' = "Menu not available"
            /\ UNCHANGED <<weekA, weekB>>
       ELSE /\ alert' = ""
            /\ IF which = "A"
               THEN /\ weekB' = IF /\ useWeekB /\ next = weekB /\ Len(availableWeeks) > 1
                                   /\ alt # <<>>
                                THEN alt[1] ELSE weekB
                    /\ weekA' = next
               ELSE /\ weekA' = weekA
                    /\ weekB' = next

setWeekSafely(which, n) ==
    LET next == clampWeek(n)
        alt == FindOther(availableWeeks, next)
    IN IF Len(availableWeeks) > 0 /\ next \notin availableWeekSet
       THEN /\ alert' = "Menu not available"
            /\ UNCHANGED <<weekA, weekB>>
       ELSE /\ alert' = ""
            /\ IF which = "A"
               THEN /\ weekB' = IF /\ useWeekB /\ next = weekB /\ Len(availableWeeks) > 1
                                   /\ alt # <<>>
                                THEN alt[1] ELSE weekB
                    /\ weekA' = next
               ELSE /\ weekA' = IF /\ useWeekB /\ next = weekA /\ Len(availableWeeks) > 1
                                   /\ alt # <<>>
                                THEN alt[1] ELSE weekA
                    /\ weekB' = next

\* the '-' and '+' buttons beside a week number
PressWeekStep(which, delta) ==
    /\ variant = "fetched" /\ Mounted
    /\ which = "B" => useWeekB
    /\ LET n == (IF which = "A" THEN weekA ELSE weekB) + delta
       IN n \in WeekInputs /\ setWeekSafely(which, n)
    /\ UNCHANGED <<fixedVars, textVars, useWeekB, gridVars, weekPickerOpen, loadVars,
                   singleVars, scriptVars, sendVars>>

\* a toggle that empties grid B when it switches biweekly off
ToggleWeekB_clearsB ==
    /\ variant \in TwoSlot /\ Mounted
    /\ useWeekB' = ~useWeekB
    /\ qtyB' = IF useWeekB THEN emptyWeekQuantities ELSE qtyB
    /\ alert' = ""
    /\ UNCHANGED <<fixedVars, textVars, weekA, weekB, qtyA, weekPickerOpen, loadVars,
                   singleVars, scriptVars, sendVars>>

\* "Add Week B" button (setUseWeekB(v => !v)) and the Biweekly Switch
ToggleWeekB ==
    /\ variant \in TwoSlot /\ Mounted
    /\ useWeekB' = ~useWeekB
    /\ alert' = ""
    /\ UNCHANGED <<fixedVars, textVars, weekA, weekB, gridVars, weekPickerOpen, loadVars,
                   singleVars, scriptVars, sendVars>>

\* bundled variant: useState initialisers of weekA and weekB
InitialWeekA(avail) == IF avail # <<>> THEN avail[1] ELSE 1

InitialWeekB(avail) ==
    LET first == InitialWeekA(avail)
        second == FindOther(avail, first)
    IN IF second # <<>> THEN second[1]
       ELSE IF first = MAX_WEEK THEN MAX_WEEK - 1 ELSE first + 1

\* bundled variant: the fix-up effect, run once after mount; gives <<weekA, weekB>>
FixUpWeeks(avail, a, b) ==
    LET a2 == IF a \notin Range(avail) THEN InitialWeekA(avail) ELSE a
        pick == FindOther(avail, a)
        b2 == IF (b \notin Range(avail) \/ b = a) /\ Truthy(pick) THEN pick[1] ELSE b
    IN <<a2, b2>>

clearOrder ==
    /\ variant \in TwoSlot /\ Mounted
    /\ qtyA' = emptyWeekQuantities
    /\ qtyB' = emptyWeekQuantities
    /\ notes' = <<>>
    /\ alert' = ""
    /\ IF variant = "fetched"
       THEN UNCHANGED <<name, weekA, weekB, useWeekB, weekPickerOpen>>
       ELSE /\ name' = <<>>
            /\ useWeekB' = FALSE
            /\ weekPickerOpen' = "none"
            /\ weekA' = IF variant = "dropdown" THEN 1 ELSE InitialWeekA(availableWeeks)
            /\ weekB' = IF variant = "dropdown" THEN 2 ELSE InitialWeekB(availableWeeks)
    /\ UNCHANGED <<fixedVars, loadVars, singleVars, scriptVars, sendVars>>

(***************************************************************************)
(* fetched variant: loadMenus() and the default-week effect.               *)
(***************************************************************************)
\* the default-week effect without `if (availableWeeks.length < 2) setUseWeekB(false)`
CommitMenus_keepsBiweekly(data) ==
    IF cancelled
    THEN UNCHANGED <<menusByWeek, menusLoaded, weekA, weekB, useWeekB>>
    ELSE LET avail == availableWeeksOf("fetched", data)
             first == avail[1]
             second == FindOther(avail, first)
         IN /\ menusByWeek' = data
            /\ menusLoaded' = TRUE
            /\ useWeekB' = useWeekB
            /\ IF Len(avail) = 0
               THEN UNCHANGED <<weekA, weekB>>
               ELSE /\ weekA' = first
                    /\ weekB' = IF second # <<>> THEN second[1] ELSE first

\* the effect's cleanup not consulted: the setters run after the unmount as well
CommitMenus_ignoresCancelled(data) ==
    LET avail == availableWeeksOf("fetched", data)
        first == avail[1]
        second == FindOther(avail, first)
    IN /\ menusByWeek' = data
       /\ menusLoaded' = TRUE
       /\ IF Len(avail) = 0
          THEN UNCHANGED <<weekA, weekB, useWeekB>>
          ELSE /\ weekA' = first
               /\ weekB' = IF second # <<>> THEN second[1] ELSE first
               /\ useWeekB' = IF Len(avail) < 2 THEN FALSE ELSE useWeekB

\* setMenusByWeek(data); setMenusLoaded(true); then the effect on [menusLoaded, weeks]
CommitMenus(data) ==
    IF cancelled
    THEN UNCHANGED <<menusByWeek, menusLoaded, weekA, weekB, useWeekB>>
    ELSE LET avail == availableWeeksOf("fetched", data)
             first == avail[1]
             second == FindOther(avail, first)
         IN /\ menusByWeek' = data
            /\ menusLoaded' = TRUE
            /\ IF Len(avail) = 0
               THEN UNCHANGED <<weekA, weekB, useWeekB>>
               ELSE /\ weekA' = first
                    /\ weekB' = IF second # <<>> THEN second[1] ELSE first
                    /\ useWeekB' = IF Len(avail) < 2 THEN FALSE ELSE useWeekB

\* a failed require that is not caught: neither setter is called
RequireBundled_uncaught(found) ==
    IF found THEN CommitMenus(menusJson)
    ELSE UNCHANGED <<menusByWeek, menusLoaded, weekA, weekB, useWeekB>>

\* data is still null after the fetch: require("./assets/menus.json") or the catch
RequireBundled(found) ==
    IF found THEN CommitMenus(menusJson) ELSE CommitMenus(NoMenus)

\* await fetch("/menus.json") settles
FetchSettles(ok, found) ==
    /\ variant = "fetched" /\ loadPc = "fetch"
    /\ IF ok
       THEN /\ loadPc' = "json"
            /\ UNCHANGED <<menusByWeek, menusLoaded, weekA, weekB, useWeekB>>
       ELSE /\ loadPc' = "done"
            /\ RequireBundled(found)
    /\ UNCHANGED <<fixedVars, textVars, gridVars, weekPickerOpen, cancelled, singleVars,
                   alert, scriptVars, sendVars>>

\* await res.json() settles
JsonSettles(ok, found) ==
    /\ variant = "fetched" /\ loadPc = "json"
    /\ loadPc' = "done"
    /\ IF ok THEN CommitMenus(menusJson) ELSE RequireBundled(found)
    /\ UNCHANGED <<fixedVars, textVars, gridVars, weekPickerOpen, cancelled, singleVars,
                   alert, scriptVars, sendVars>>

\* the effect's cleanup
Unmount ==
    /\ variant = "fetched" /\ ~cancelled
    /\ cancelled' = TRUE
    /\ UNCHANGED <<fixedVars, textVars, weekVars, gridVars, weekPickerOpen, menusByWeek,
                   menusLoaded, loadPc, singleVars, alert, scriptVars, sendVars>>

(***************************************************************************)
(* Initial state and next-state relation.                                  *)
(***************************************************************************)
InitSession(v, file) ==
    /\ variant = v
    /\ menusJson = file
    /\ name = IF v = "single" THEN <<"S", "t", "e", "p", "h", "a", "n", "i", "e">> ELSE <<>>
    /\ notes = <<>>
    /\ useWeekB = FALSE
    /\ qtyA = emptyWeekQuantities
    /\ qtyB = emptyWeekQuantities
    /\ weekPickerOpen = "none"
    /\ menusByWeek = NoMenus
    /\ menusLoaded = FALSE
    /\ loadPc = IF v = "fetched" THEN "fetch" ELSE "done"
    /\ cancelled = FALSE
    /\ week = IF v = "single" THEN 1 ELSE 0
    /\ order = emptyWeek
    /\ vegan = FALSE
    /\ lowCarb = FALSE
    /\ alert = ""
    /\ CASE v = "single" -> weekA = 0 /\ weekB = 0
         [] v = "bundled" ->
              LET avail == availableWeeksOf(v, file)
                  fixed == FixUpWeeks(avail, InitialWeekA(avail), InitialWeekB(avail))
              IN weekA = fixed[1] /\ weekB = fixed[2]
         [] OTHER -> weekA = 1 /\ weekB = 2

Init ==
    /\ \E v \in Variants : \E file \in MenusFiles(v) : InitSession(v, file)
    /\ calls = <<>>
    /\ ncalls = 0
    /\ sendPc = "idle" /\ opens = 0 /\ opened = FALSE

Next ==
    \/ \E text \in NameInputs : SetName(text)
    \/ \E text \in NotesInputs : SetNotes(text)
    \/ \E cell \in CellInputs, delta \in {-1, 1} :
          PressQty(cell[1], cell[2], cell[3], delta)
    \/ \E which \in {"A", "B"} : openWeekPicker(which)
    \/ CloseWeekPicker
    \/ \E item \in WeekInputs : PressWeekItem(item)
    \/ \E which \in {"A", "B"}, delta \in {-1, 1} : PressWeekStep(which, delta)
    \/ ToggleWeekB
    \/ clearOrder
    \/ \E ok \in BOOLEAN, found \in BOOLEAN : FetchSettles(ok, found)
    \/ \E ok \in BOOLEAN, found \in BOOLEAN : JsonSettles(ok, found)
    \/ Unmount
    \/ \E cell \in FieldCellInputs, delta \in {-1, 1} :
          PressDayStepper(cell[1], cell[2], delta)
    \/ \E delta \in {-1, 1} : PressWeekStepper(delta)
    \/ SetVegan
    \/ SetLowCarb

Spec == Init /\ [][Next]_vars

(***************************************************************************)
(* The fetched variant alone, with the awaited promises settling: fetch()  *)
(* resolves or rejects, res.json() resolves or rejects, and the event loop *)
(* then runs the continuation of loadMenus().                              *)
(***************************************************************************)
InitLoad == Init /\ variant = "fetched"

NextLoad ==
    \/ \E text \in NameInputs : SetName(text)
    \/ \E text \in NotesInputs : SetNotes(text)
    \/ \E cell \in CellInputs, delta \in {-1, 1} :
          PressQty(cell[1], cell[2], cell[3], delta)
    \/ \E which \in {"A", "B"}, delta \in {-1, 1} : PressWeekStep(which, delta)
    \/ ToggleWeekB
    \/ clearOrder
    \/ \E ok \in BOOLEAN, found \in BOOLEAN : FetchSettles(ok, found)
    \/ \E ok \in BOOLEAN, found \in BOOLEAN : JsonSettles(ok, found)
    \/ Unmount

SpecLoad ==
    /\ InitLoad
    /\ [][NextLoad]_vars
    /\ WF_vars(\E ok \in BOOLEAN, found \in BOOLEAN : FetchSettles(ok, found))
    /\ WF_vars(\E ok \in BOOLEAN, found \in BOOLEAN : JsonSettles(ok, found))

(***************************************************************************)
(* The message handed to WhatsApp: the `lines` array before join("\n").    *)
(* A line is its text together with the statement that pushed it (kind).   *)
(* Amounts are whole rands, so toFixed(2) appends ".00".                   *)
(***************************************************************************)
hasAnySelections == totalMeals > 0

DAY_SHORT == [d \in DaySet |-> CASE d = "Monday" -> "Mon" [] d = "Tuesday" -> "Tue"
                                 [] d = "Wednesday" -> "Wed" [] d = "Thursday" -> "Thu"
                                 [] OTHER -> "Fri"]

Line(kind, text) == [kind |-> kind, text |-> text]

\* a sequence of characters as a string
RECURSIVE Str(_)
Str(chars) == IF chars = <<>> THEN "" ELSE Head(chars) \o Str(Tail(chars))

IsSpace(ch) == ch \in {" ", "\t", "\n"}

RECURSIVE TrimStart(_)
TrimStart(chars) ==
    IF chars # <<>> /\ IsSpace(Head(chars)) THEN TrimStart(Tail(chars)) ELSE chars

RECURSIVE TrimEnd(_)
TrimEnd(chars) ==
    IF chars # <<>> /\ IsSpace(chars[Len(chars)])
    THEN TrimEnd(SubSeq(chars, 1, Len(chars) - 1)) ELSE chars

\* String.prototype.trim
Trim(chars) == TrimEnd(TrimStart(chars))

\* Array.prototype.join
RECURSIVE Join(_, _)
Join(parts, sep) ==
    IF parts = <<>> THEN ""
    ELSE IF Len(parts) = 1 THEN parts[1]
    ELSE parts[1] \o sep \o Join(Tail(parts), sep)

\* String(n).padStart(2, "0")
pad2(n) == IF n >= 0 /\ n < 10 THEN "0" \o ToString(n) ELSE ToString(n)

formatRand(amount) == "R" \o ToString(amount) \o ".00"

NameLine == Line("name", "Name: " \o (IF Trim(name) # <<>> THEN Str(Trim(name)) ELSE "[name]"))

NotesLines ==
    IF Trim(notes) # <<>>
    THEN <<Line("blank", ""), Line("notes", "Notes: " \o Str(Trim(notes)))>>
    ELSE <<>>

\* `${q} ${m}` (buildOrderText) and `x${q} ${m}` (the WhatsApp texts)
CountThenMeal(q, m) == ToString(q) \o " " \o m
TimesMeal(q, m) == "x" \o ToString(q) \o " " \o m

\* the parts of one day, in the order of `meals`
RECURSIVE DayParts(_, _, _, _)
DayParts(row, meals, i, times) ==
    IF i > Len(meals) THEN <<>>
    ELSE (IF row[meals[i]] > 0
          THEN <<IF times THEN TimesMeal(row[meals[i]], meals[i])
                 ELSE CountThenMeal(row[meals[i]], meals[i])>>
          ELSE <<>>)
         \o DayParts(row, meals, i + 1, times)

\* dropdown and bundled variants: the day lines of buildOrderText
RECURSIVE OrderDayLines(_, _)
OrderDayLines(quantities, i) ==
    IF i > Len(DAYS) THEN <<>>
    ELSE LET parts == DayParts(quantities[DAYS[i]], MEAL_TYPES, 1, FALSE)
         IN (IF parts # <<>>
             THEN <<Line("day", "- " \o DAYS[i] \o ": " \o Join(parts, " + "))>>
             ELSE <<>>)
            \o OrderDayLines(quantities, i + 1)

\* the block of one week in buildOrderText (addWeekBlock in the bundled variant)
addWeekBlock(weekNumber, quantities, weekMeals, weekCost) ==
    LET menu == getMenuForWeek(weekNumber)
        title == IF variant = "bundled" /\ menu # <<>> /\ menu[1].title # ""
                 THEN " (" \o menu[1].title \o ")" ELSE ""
    IN <<Line("week", "Week " \o pad2(weekNumber) \o title \o ":")>>
       \o OrderDayLines(quantities, 1)
       \o <<Line("weekTotal", "Total meals (Week " \o pad2(weekNumber) \o "): "
                                 \o ToString(weekMeals)),
            Line("weekTotal", "Cost (Week " \o pad2(weekNumber) \o "): "
                                 \o formatRand(weekCost)),
            Line("blank", "")>>

buildOrderText ==
    <<Line("header", "Meal Order"), NameLine, Line("blank", "")>>
    \o addWeekBlock(weekA, qtyA, weekATotalMeals, weekATotalCost)
    \o (IF useWeekB THEN addWeekBlock(weekB, qtyB, weekBTotalMeals, weekBTotalCost)
        ELSE <<>>)
    \o <<Line("total", "Total meals: " \o ToString(totalMeals)),
         Line("total", "Total cost: " \o formatRand(totalCost))>>
    \o NotesLines

\* fetched variant: buildWhatsAppWeekLines
RECURSIVE WhatsAppDayLines(_, _)
WhatsAppDayLines(qty, i) ==
    IF i > Len(DAYS) THEN <<>>
    ELSE LET parts == DayParts(qty[DAYS[i]], MEAL_TYPES, 1, TRUE)
         IN (IF parts # <<>>
             THEN <<Line("day", DAY_SHORT[DAYS[i]] \o ": " \o Join(parts, " "))>>
             ELSE <<>>)
            \o WhatsAppDayLines(qty, i + 1)

buildWhatsAppWeekLines(weekNumber, qty) ==
    LET menu == getMenuForWeek(weekNumber)
        range == IF menu # <<>> /\ menu[1].dateRange # <<>> /\ menu[1].dateRange[1] # ""
                 THEN " (" \o menu[1].dateRange[1] \o ")" ELSE ""
    IN <<Line("week", "Week " \o pad2(weekNumber) \o range)>> \o WhatsAppDayLines(qty, 1)

\* while (lines[lines.length - 1] === "") lines.pop()
RECURSIVE PopBlankLines(_)
PopBlankLines(lines) ==
    IF lines # <<>> /\ lines[Len(lines)].text = ""
    THEN PopBlankLines(SubSeq(lines, 1, Len(lines) - 1)) ELSE lines

whatsappText ==
    IF ~hasAnySelections THEN <<>>
    ELSE PopBlankLines(
            <<Line("header", "Meal Order"), NameLine, Line("blank", "")>>
            \o buildWhatsAppWeekLines(weekA, qtyA)
            \o (IF useWeekB /\ weekB # weekA
                THEN <<Line("blank", "")>> \o buildWhatsAppWeekLines(weekB, qtyB)
                ELSE <<>>)
            \o <<Line("blank", ""),
                 Line("total", "TOTAL: " \o ToString(totalMeals) \o " meals · "
                                  \o formatRand(totalCost))>>
            \o NotesLines)

\* fetched variant: the Order Summary box on the screen
LOW_CARB_NOTE ==
    "Low Carb meals follow the same menu as above; however, starchy sides (e.g., potatoes, rice, pasta, couscous) will be substituted with a suitable low-carb alternative such as cauliflower rice or seasonal vegetables, where appropriate."

\* menu is <<entry>> or <<>> (null)
getMealParts(menu, day, meal) ==
    IF meal = "Low Carb" THEN [name |-> "Low Carb", description |-> LOW_CARB_NOTE]
    ELSE IF menu # <<>> /\ day \in DOMAIN menu[1].days /\ meal \in DOMAIN menu[1].days[day]
    THEN menu[1].days[day][meal]
    ELSE [name |-> "Menu item coming soon.", description |-> ""]

\* the lines of one day: `- ${meal}: ${count} (${nameOnly})` for each nonzero meal
RECURSIVE DetailedMealLines(_, _, _, _)
DetailedMealLines(menu, qty, day, i) ==
    IF i > Len(MEAL_TYPES) THEN <<>>
    ELSE LET meal == MEAL_TYPES[i]
             count == qty[day][meal]
             parts == getMealParts(menu, day, meal)
             nameOnly == IF meal = "Low Carb" THEN "Low Carb"
                         ELSE IF parts.name # "" THEN parts.name ELSE "Menu item"
         IN (IF count <= 0 THEN <<>>
             ELSE <<Line("meal", "- " \o meal \o ": " \o ToString(count)
                                     \o " (" \o nameOnly \o ")")>>)
            \o DetailedMealLines(menu, qty, day, i + 1)

RECURSIVE DetailedDayLines(_, _, _)
DetailedDayLines(menu, qty, i) ==
    IF i > Len(DAYS) THEN <<>>
    ELSE LET dayLines == DetailedMealLines(menu, qty, DAYS[i], 1)
         IN (IF Len(dayLines) > 0 THEN <<Line("day", DAYS[i])>> \o dayLines ELSE <<>>)
            \o DetailedDayLines(menu, qty, i + 1)

buildDetailedLinesForWeek(weekNumber, qty) ==
    LET menu == getMenuForWeek(weekNumber)
        range == IF menu # <<>> /\ menu[1].dateRange # <<>> /\ menu[1].dateRange[1] # ""
                 THEN " (" \o menu[1].dateRange[1] \o ")" ELSE ""
    IN <<Line("week", "Week " \o pad2(weekNumber) \o range)>>
       \o DetailedDayLines(menu, qty, 1)
       \o <<Line("weekTotal", "Subtotal: " \o ToString(sumWeekMeals(qty)) \o " meals · "
                                 \o formatRand(sumWeekCostFetched(qty))),
            Line("blank", "")>>

onScreenSummaryText ==
    IF ~hasAnySelections THEN <<>>
    ELSE PopBlankLines(
            <<Line("header", "Meal Order"), NameLine, Line("blank", "")>>
            \o buildDetailedLinesForWeek(weekA, qtyA)
            \o (IF useWeekB /\ weekB # weekA THEN buildDetailedLinesForWeek(weekB, qtyB)
                ELSE <<>>)
            \o <<Line("total", "TOTAL: " \o ToString(totalMeals) \o " meals · "
                                  \o formatRand(totalCost))>>
            \o NotesLines)

\* single variant: the lines of buildWhatsAppMessage, before encodeURIComponent
RECURSIVE StepperDayLines(_)
StepperDayLines(i) ==
    IF i > Len(DAYS) THEN <<>>
    ELSE LET day == order[DAYS[i]]
             parts == (IF day.meat > 0 THEN <<TimesMeal(day.meat, "Meat")>> ELSE <<>>)
                      \o (IF day.veg > 0 THEN <<TimesMeal(day.veg, "Veg")>> ELSE <<>>)
         IN <<Line("day", DAYS[i] \o ": " \o (IF parts # <<>> THEN Join(parts, " ") ELSE "-"))>>
            \o StepperDayLines(i + 1)

buildWhatsAppMessage ==
    <<Line("header", "Evening Meal Order\n"),
      Line("name", "Name: " \o Str(name)),
      Line("week", "Week: " \o pad2(week) \o "\n")>>
    \o StepperDayLines(1)
    \o <<Line("blank", ""),
         Line("option", "Vegan: " \o (IF vegan THEN "Yes" ELSE "No")),
         Line("option", "Low Carb: " \o (IF lowCarb THEN "Yes" ELSE "No")),
         Line("blank", ""),
         Line("total", "Total Meals: " \o ToString(totals.totalMeals)),
         Line("total", "Total Cost: " \o formatRand(totals.totalCost))>>

\* the text each variant encodes into the WhatsApp link
outboundMessage ==
    CASE variant = "single" -> buildWhatsAppMessage
      [] variant = "fetched" -> whatsappText
      [] OTHER -> buildOrderText

(***************************************************************************)
(* sendWhatsApp().  One call is followed from the press to its end; the    *)
(* text is built before the first await, so what the handlers do while the *)
(* call is suspended does not reach it.  Platform.OS and the results of    *)
(* Linking.canOpenURL / Linking.openURL come from the environment.         *)
(***************************************************************************)
WHATSAPP_NUMBER == <<"2", "7", "7", "1", "9", "5", "3", "1", "8", "8", "5">>

\* String.prototype.includes for one character
Includes(str, ch) == ch \in Range(str)

\* the checks of sendWhatsApp without the comparison of week B with week A
SendRejection_skipsDuplicate ==
    CASE variant = "dropdown" ->
            IF weekA < 1 \/ weekA > MAX_WEEK THEN "Week A must be between 1 and 48."
            ELSE IF useWeekB /\ (weekB < 1 \/ weekB > MAX_WEEK)
            THEN "Week B must be between 1 and 48."
            ELSE ""
      [] variant = "bundled" ->
            IF weekA \notin availableWeekSet THEN "Week A not available"
            ELSE IF useWeekB /\ weekB \notin availableWeekSet THEN "Week B not available"
            ELSE ""
      [] variant = "fetched" ->
            IF ~hasAnySelections THEN "No selections yet"
            ELSE IF WHATSAPP_NUMBER = <<>> \/ Includes(WHATSAPP_NUMBER, "X")
            THEN "WhatsApp number not set"
            ELSE ""
      [] OTHER -> ""

\* the title of the Alert the checks at the top of sendWhatsApp raise, "" if they pass
SendRejection ==
    CASE variant = "dropdown" ->
            IF weekA < 1 \/ weekA > MAX_WEEK THEN "Week A must be between 1 and 48."
            ELSE IF useWeekB /\ (weekB < 1 \/ weekB > MAX_WEEK)
            THEN "Week B must be between 1 and 48."
            ELSE IF useWeekB /\ weekB = weekA THEN "Week B must be different from Week A."
            ELSE ""
      [] variant = "bundled" ->
            IF weekA \notin availableWeekSet THEN "Week A not available"
            ELSE IF useWeekB /\ weekB \notin availableWeekSet THEN "Week B not available"
            ELSE IF useWeekB /\ weekB = weekA THEN "Week B must be different from Week A."
            ELSE ""
      [] variant = "fetched" ->
            IF ~hasAnySelections THEN "No selections yet"
            ELSE IF WHATSAPP_NUMBER = <<>> \/ Includes(WHATSAPP_NUMBER, "X")
            THEN "WhatsApp number not set"
            ELSE ""
      [] OTHER -> ""

\* the titles of the alerts that report a failed hand-off
CannotOpenTitles == {"Could not open WhatsApp", "Cannot open WhatsApp"}

\* the dropdown and bundled variants wrap the awaits in try / catch
CatchesOpenFailure == variant \in {"dropdown", "bundled"}

\* a press of the send button, up to the first await
PressSend(os) ==
    /\ Mounted
    /\ sendPc = "idle"
    /\ opened' = FALSE
    /\ IF SendRejection # ""
       THEN alert' = SendRejection /\ sendPc' = "idle" /\ opens' = 0
       ELSE /\ alert' = ""
            /\ CASE variant = "single" -> sendPc' = "openURL" /\ opens' = 1
                 [] variant = "fetched" -> sendPc' = "canOpenURL" /\ opens' = 0
                 [] OTHER ->
                      IF os # "web"
                      THEN sendPc' = "canOpenURL" /\ opens' = 0
                      ELSE sendPc' = "openURL" /\ opens' = 1
    /\ UNCHANGED <<fixedVars, textVars, weekVars, gridVars, weekPickerOpen, loadVars,
                   singleVars, scriptVars>>

\* await Linking.canOpenURL(..) settles: "true", "false" or "reject"
CanOpenURLSettles(result) ==
    /\ sendPc \in {"canOpenURL", "canOpenURL2"}
    /\ opened' = FALSE
    /\ IF CatchesOpenFailure
       THEN IF result = "reject"
            THEN sendPc' = "idle" /\ opens' = opens /\ alert' = "Could not open WhatsApp"
            ELSE sendPc' = "openURL" /\ opens' = opens + 1 /\ alert' = ""
       ELSE CASE result = "reject" -> sendPc' = "idle" /\ opens' = opens /\ alert' = ""
              [] result = "true" -> sendPc' = "openURL" /\ opens' = opens + 1 /\ alert' = ""
              [] OTHER ->
                   IF sendPc = "canOpenURL"
                   THEN sendPc' = "canOpenURL2" /\ opens' = opens /\ alert' = ""
                   ELSE sendPc' = "idle" /\ opens' = opens /\ alert' = "Cannot open WhatsApp"
    /\ UNCHANGED <<fixedVars, textVars, weekVars, gridVars, weekPickerOpen, loadVars,
                   singleVars, scriptVars>>

\* a rejected openURL answered by opening the web link as well
OpenURLSettles_retries(ok) ==
    /\ sendPc = "openURL"
    /\ opened' = ok
    /\ IF ok
       THEN sendPc' = "idle" /\ opens' = opens /\ alert' = ""
       ELSE sendPc' = "openURL" /\ opens' = opens + 1 /\ alert' = ""
    /\ UNCHANGED <<fixedVars, textVars, weekVars, gridVars, weekPickerOpen, loadVars,
                   singleVars, scriptVars>>

\* the promise of Linking.openURL(..) settles
OpenURLSettles(ok) ==
    /\ sendPc = "openURL"
    /\ sendPc' = "idle"
    /\ opens' = opens
    /\ opened' = ok
    /\ alert' = IF ~ok /\ CatchesOpenFailure THEN "Could not open WhatsApp" ELSE ""
    /\ UNCHANGED <<fixedVars, textVars, weekVars, gridVars, weekPickerOpen, loadVars,
                   singleVars, scriptVars>>

\* the send button together with the handlers that change what sendWhatsApp reads
NextSend ==
    \/ \E os \in {"web", "android"} : PressSend(os)
    \/ \E result \in {"true", "false", "reject"} : CanOpenURLSettles(result)
    \/ \E ok \in BOOLEAN : OpenURLSettles(ok)
    \/ \E cell \in CellInputs, delta \in {-1, 1} :
          PressQty(cell[1], cell[2], cell[3], delta)
    \/ \E which \in {"A", "B"} : openWeekPicker(which)
    \/ \E item \in WeekInputs : PressWeekItem(item)
    \/ \E which \in {"A", "B"}, delta \in {-1, 1} : PressWeekStep(which, delta)
    \/ ToggleWeekB
    \/ \E ok \in BOOLEAN, found \in BOOLEAN : FetchSettles(ok, found)
    \/ \E ok \in BOOLEAN, found \in BOOLEAN : JsonSettles(ok, found)

SpecSend == Init /\ [][NextSend]_vars

\* the same for the dropdown and bundled variants alone, whose sendWhatsApp validates
\* the weeks
InitSendWeeks == Init /\ variant \in {"dropdown", "bundled"}

NextSendWeeks ==
    \/ \E os \in {"web", "android"} : PressSend(os)
    \/ \E result \in {"true", "false", "reject"} : CanOpenURLSettles(result)
    \/ \E ok \in BOOLEAN : OpenURLSettles(ok)
    \/ \E which \in {"A", "B"} : openWeekPicker(which)
    \/ \E item \in WeekInputs : PressWeekItem(item)
    \/ ToggleWeekB

SpecSendWeeks == InitSendWeeks /\ [][NextSendWeeks]_vars

(***************************************************************************)
(* The texts of the two-slot variants, with name and notes typed in full:  *)
(* blank, padded and whitespace-only values.                               *)
(***************************************************************************)
NameTexts == NameInputs \cup {<<" ">>}
NotesTexts == NotesInputs \cup {<<" ", "\t">>, <<"\n">>}

\* the Order Summary of the screen
detailedSummary == IF variant = "fetched" THEN onScreenSummaryText ELSE buildOrderText

InitText == Init /\ variant \in TwoSlot /\ menusJson \in {NoMenus, MenusTwoPlain, MenusTwo}

NextText ==
    \/ \E text \in NameTexts : SetName(text)
    \/ \E text \in NotesTexts : SetNotes(text)
    \/ \E cell \in CellInputs, delta \in {-1, 1} :
          PressQty(cell[1], cell[2], cell[3], delta)
    \/ \E which \in {"A", "B"}, delta \in {-1, 1} : PressWeekStep(which, delta)
    \/ ToggleWeekB
    \/ \E ok \in BOOLEAN, found \in BOOLEAN : FetchSettles(ok, found)
    \/ \E ok \in BOOLEAN, found \in BOOLEAN : JsonSettles(ok, found)

SpecText == InitText /\ [][NextText]_vars

(***************************************************************************)
(* Week selection in the fetched variant, over catalogs with consecutive   *)
(* weeks, with a gap between the weeks, with one week and with none.       *)
(***************************************************************************)
\* one cell of each grid is enough to tell a grid that changed from one that did not
PickCells == {<<"A", "Monday", "Meat">>, <<"B", "Wednesday", "Veg">>}

InitWeeks ==
    /\ \E file \in {NoMenus, MenusOnePlain, MenusTwoPlain, MenusGap, MenusTop} :
          InitSession("fetched", file)
    /\ calls = <<>>
    /\ ncalls = 0
    /\ sendPc = "idle" /\ opens = 0 /\ opened = FALSE

NextWeeks ==
    \/ \E which \in {"A", "B"}, delta \in {-1, 1} : PressWeekStep(which, delta)
    \/ ToggleWeekB
    \/ \E cell \in PickCells, delta \in {-1, 1} :
          PressQty(cell[1], cell[2], cell[3], delta)
    \/ \E ok \in BOOLEAN, found \in BOOLEAN : FetchSettles(ok, found)
    \/ \E ok \in BOOLEAN, found \in BOOLEAN : JsonSettles(ok, found)

SpecWeeks == InitWeeks /\ [][NextWeeks]_vars

(***************************************************************************)
(* The fetched variant around the completion of loadMenus(): what was      *)
(* entered before it, the load itself, and the unmount that cancels it.    *)
(***************************************************************************)
NextDefaults ==
    \/ \E text \in NameInputs : SetName(text)
    \/ \E text \in NotesInputs : SetNotes(text)
    \/ \E cell \in PickCells, delta \in {-1, 1} :
          PressQty(cell[1], cell[2], cell[3], delta)
    \/ \E which \in {"A", "B"}, delta \in {-1, 1} : PressWeekStep(which, delta)
    \/ ToggleWeekB
    \/ \E ok \in BOOLEAN, found \in BOOLEAN : FetchSettles(ok, found)
    \/ \E ok \in BOOLEAN, found \in BOOLEAN : JsonSettles(ok, found)
    \/ Unmount

SpecDefaults == InitLoad /\ [][NextDefaults]_vars

(***************************************************************************)
(* pickWeek called with any listed week, the greyed-out one included: the  *)
(* handler's own duplicate check, without the row's `!disabled` in front.  *)
(***************************************************************************)
CallPickWeek(which, value) ==
    /\ variant \in {"dropdown", "bundled"}
    /\ weekPickerOpen = which
    /\ value \in PickerItems
    /\ pickWeek(which, value)
    /\ UNCHANGED <<fixedVars, textVars, useWeekB, gridVars, loadVars, singleVars, scriptVars,
                   sendVars>>

InitPick == Init /\ variant \in {"dropdown", "bundled"}

NextPick ==
    \/ \E which \in {"A", "B"}, value \in WeekInputs : CallPickWeek(which, value)
    \/ \E which \in {"A", "B"} : openWeekPicker(which)
    \/ CloseWeekPicker
    \/ ToggleWeekB
    \/ \E text \in NameInputs : SetName(text)
    \/ \E text \in NotesInputs : SetNotes(text)
    \/ \E cell \in PickCells, delta \in {-1, 1} :
          PressQty(cell[1], cell[2], cell[3], delta)

SpecPick == InitPick /\ [][NextPick]_vars

(***************************************************************************)
(* Scripted calls of changeQty on one cell of an empty grid.               *)
(***************************************************************************)
Scripts == UNION {[1..n -> DeltaInputs] : n \in 0..MaxCalls}

InitAdjust ==
    /\ \E v \in TwoSlot : InitSession(v, NoMenus)
    /\ \E cell \in CellInputs, script \in Scripts :
          calls = [i \in DOMAIN script |->
                      [which |-> cell[1], day |-> cell[2], meal |-> cell[3],
                       delta |-> script[i]]]
    /\ ncalls = 0
    /\ sendPc = "idle" /\ opens = 0 /\ opened = FALSE

ApplyCall ==
    /\ ncalls < Len(calls)
    /\ LET c == calls[ncalls + 1]
       IN changeQty(c.which, c.day, c.meal, c.delta)
    /\ ncalls' = ncalls + 1
    /\ UNCHANGED <<fixedVars, textVars, weekVars, weekPickerOpen, loadVars, singleVars,
                   alert, calls, sendVars>>

NextAdjust == ApplyCall

SpecAdjust == InitAdjust /\ [][NextAdjust]_vars

(***************************************************************************)
(* Properties.                                                             *)
(***************************************************************************)
AllCells == DaySet \X MealSet
AllFieldCells == DaySet \X FieldSet

RECURSIVE SumOver(_, _)
SumOver(f, S) ==
    IF S = {} THEN 0
    ELSE LET x == CHOOSE y \in S : TRUE IN f[x] + SumOver(f, S \ {x})

\* the quantities of a grid as a function of <<day, meal>>
Cells(grid, cells) == [c \in cells |-> grid[c[1]][c[2]]]

GridMeals(grid) == SumOver(Cells(grid, AllCells), AllCells)

\* a week's pricing as the catalog states it: its override if present, else 90 and 10
CatalogPricing(w) ==
    LET key == ToString(w)
        has == key \in DOMAIN Menus
    IN [base |-> IF has /\ Menus[key].price # <<>> THEN Menus[key].price[1] ELSE 90,
        extra |-> IF has /\ Menus[key].lowCarbExtra # <<>>
                  THEN Menus[key].lowCarbExtra[1] ELSE 10]

MealPrice(meal, w) ==
    IF meal = "Low Carb" THEN CatalogPricing(w).base + CatalogPricing(w).extra
    ELSE CatalogPricing(w).base

GridCost(grid, w) ==
    SumOver([c \in AllCells |-> grid[c[1]][c[2]] * MealPrice(c[2], w)], AllCells)

SlotGrid(which) == IF which = "A" THEN qtyA ELSE qtyB

\* C1: every quantity of every grid is an integer >= 0 in every reachable state, and a
\* '-' press on a cell that holds 0 is accepted and leaves that cell at 0
C1_QuantitiesNeverNegative ==
    /\ [](/\ \A c \in AllCells : qtyA[c[1]][c[2]] \in Nat /\ qtyB[c[1]][c[2]] \in Nat
          /\ \A c \in AllFieldCells : order[c[1]][c[2]] \in Nat
          /\ \A c \in CellInputs :
                variant \in TwoSlot /\ Mounted /\ WeekBlockShown(c[1])
                    => ENABLED PressQty(c[1], c[2], c[3], -1)
          /\ \A c \in FieldCellInputs :
                variant = "single" => ENABLED PressDayStepper(c[1], c[2], -1))
    /\ [][/\ \A c \in CellInputs :
                PressQty(c[1], c[2], c[3], -1) /\ SlotGrid(c[1])[c[2]][c[3]] = 0
                    => SlotGrid(c[1])'[c[2]][c[3]] = 0
          /\ \A c \in FieldCellInputs :
                PressDayStepper(c[1], c[2], -1) /\ order[c[1]][c[2]] = 0
                    => order'[c[1]][c[2]] = 0]_vars

\* C1 witness: presses on both slots, a week change and a toggle have happened, and a
\* cell that was decremented back holds 0 beside cells that hold meals
C1_Witness ==
    /\ variant = "dropdown" /\ weekA = 3 /\ ~useWeekB
    /\ qtyA["Monday"]["Meat"] = 0
    /\ qtyA["Friday"]["Low Carb"] = 1
    /\ qtyB["Wednesday"]["Veg"] = 1

RECURSIVE SumDeltas(_, _)
SumDeltas(cs, n) == IF n = 0 THEN 0 ELSE cs[n].delta + SumDeltas(cs, n - 1)

RECURSIVE LeastPrefixSum(_, _)
LeastPrefixSum(cs, n) ==
    IF n = 0 THEN 0 ELSE Min(SumDeltas(cs, n), LeastPrefixSum(cs, n - 1))

\* the cell the scripted calls address
ScriptCell == SlotGrid(calls[1].which)[calls[1].day][calls[1].meal]

\* C2 as stated: after any sequence of changeQty calls on one cell of an empty grid the
\* cell holds max(0, sum of the deltas)
C2_MaxOfSum ==
    ncalls > 0 => ScriptCell = Max(0, SumDeltas(calls, ncalls))

\* C2 amended: the cell holds the sum of the deltas minus the least prefix sum when that
\* is negative; so it is never negative, never below max(0, sum), and equals
\* max(0, sum) when no prefix sum is negative
C2_SumMinusLeastPrefix ==
    ncalls > 0 =>
        /\ ScriptCell = SumDeltas(calls, ncalls) - Min(0, LeastPrefixSum(calls, ncalls))
        /\ ScriptCell >= Max(0, SumDeltas(calls, ncalls))
        /\ LeastPrefixSum(calls, ncalls) >= 0 => ScriptCell = Max(0, SumDeltas(calls, ncalls))

\* C2 witness: all calls of a script were made, an early one was clamped, and the cell
\* ends above max(0, sum)
C2_Witness ==
    /\ ncalls = Len(calls) /\ ncalls >= 3
    /\ LeastPrefixSum(calls, ncalls) < 0
    /\ ScriptCell > Max(0, SumDeltas(calls, ncalls))

\* C3: in the two-slot variants, whenever biweekly is enabled weekA differs from weekB
C3_BiweeklyWeeksDistinct ==
    variant \in TwoSlot /\ useWeekB => weekA # weekB

\* C4: every selected week number is within 1..48
C4_WeeksInRange ==
    IF variant = "single" THEN week \in 1..MAX_WEEK
    ELSE weekA \in 1..MAX_WEEK /\ weekB \in 1..MAX_WEEK

\* C5: whenever biweekly is disabled, total meals and total cost are those of grid A
\* alone, whatever grid B holds
C5_GridBInertWhenDisabled ==
    variant \in TwoSlot /\ ~useWeekB =>
        /\ totalMeals = GridMeals(qtyA)
        /\ totalCost = GridCost(qtyA, weekA)

\* C5 witness: biweekly is off while grid B still holds meals and grid A holds some too
C5_Witness ==
    /\ variant \in TwoSlot /\ ~useWeekB
    /\ GridMeals(qtyB) > 0
    /\ GridMeals(qtyA) > 0

\* C6: totalMeals is the sum of all cells of grid A plus, exactly when biweekly is
\* enabled, the sum of all cells of grid B (one grid in the single variant)
C6_TotalMealsIsCellSum ==
    IF variant = "single"
    THEN totalMeals = SumOver(Cells(order, AllFieldCells), AllFieldCells)
    ELSE totalMeals = GridMeals(qtyA) + (IF useWeekB THEN GridMeals(qtyB) ELSE 0)

\* C6 witness: biweekly is on and both grids hold meals, Low Carb among them
C6_Witness ==
    /\ variant \in TwoSlot /\ useWeekB
    /\ qtyA["Monday"]["Meat"] > 0
    /\ qtyB["Friday"]["Low Carb"] > 0

C8_EnableResolvesConflict ==
    [][ToggleWeekB /\ ~useWeekB /\ weekA = weekB => ~(useWeekB' /\ weekA' = weekB')]_vars

\* the week a press on a slot's '-' or '+' button asks for
StepRequest(which, delta) == (IF which = "A" THEN weekA ELSE weekB) + delta

\* C9: with biweekly enabled and distinct weeks, asking for the other slot's week never
\* ends with weekA = weekB
C9_DuplicateNeverTakesEffect ==
    [][/\ \A which \in {"A", "B"}, delta \in {-1, 1} :
             /\ PressWeekStep(which, delta)
             /\ useWeekB /\ weekA # weekB
             /\ StepRequest(which, delta) = (IF which = "A" THEN weekB ELSE weekA)
             => weekA' # weekB'
       /\ \A item \in WeekInputs :
             /\ PressWeekItem(item)
             /\ useWeekB /\ weekA # weekB
             /\ item = (IF weekPickerOpen = "A" THEN weekB ELSE weekA)
             => weekA' # weekB']_vars

\* C10: a request for a week outside 1..48 raises an alert and changes no session state
C10_OutOfRangeRejected ==
    [][/\ \A which \in {"A", "B"}, delta \in {-1, 1} :
             PressWeekStep(which, delta) /\ StepRequest(which, delta) \notin 1..MAX_WEEK
             => alert' # "" /\ UNCHANGED <<weekVars, gridVars, textVars>>
       /\ \A delta \in {-1, 1} :
             PressWeekStepper(delta) /\ StepperValue(week, delta) \notin 1..MAX_WEEK
             => alert' # "" /\ UNCHANGED <<singleVars, textVars>>]_vars

\* C11: with a constrained catalog, a request for a week that is not in availableWeeks
\* raises the "Menu not available" alert and leaves both weeks, the flag and the grids
\* unchanged
C11_UnavailableRejected ==
    [][\A which \in {"A", "B"}, delta \in {-1, 1} :
          /\ PressWeekStep(which, delta)
          /\ Len(availableWeeks) > 0
          /\ StepRequest(which, delta) \notin availableWeekSet
          => alert' = "Menu not available" /\ UNCHANGED <<weekVars, gridVars>>]_vars

\* the week slots a fresh session has for the catalog in use
InitialWeeksOfCatalog(a, b) ==
    LET nums == WeekNumbers(Menus)
    IN IF nums = <<>> THEN a = 1 /\ b = 2
       ELSE a = nums[1] /\ (Len(nums) > 1 => b = nums[2])

\* C12: clearOrder ends with empty name and notes, both grids zero, biweekly off and the
\* week slots on the catalog's first two weeks (1 and 2 without a catalog)
C12_ClearRestoresInitial ==
    [][clearOrder =>
          /\ name' = <<>> /\ notes' = <<>>
          /\ qtyA' = emptyWeekQuantities /\ qtyB' = emptyWeekQuantities
          /\ ~useWeekB'
          /\ InitialWeeksOfCatalog(weekA', weekB')]_vars

\* C13: a toggle changes neither grid, neither week, nor name and notes; it adds or
\* removes exactly grid B's meals and cost from the totals; and while biweekly is off
\* grid B changes only by clearOrder
C13_ToggleKeepsGridB ==
    [][/\ ToggleWeekB =>
             /\ UNCHANGED <<qtyA, qtyB, weekA, weekB, name, notes>>
             /\ totalMeals' - totalMeals
                    = (IF useWeekB THEN 0 - GridMeals(qtyB) ELSE GridMeals(qtyB))
             /\ totalCost' - totalCost
                    = (IF useWeekB THEN 0 - GridCost(qtyB, weekB) ELSE GridCost(qtyB, weekB))
       /\ ~useWeekB /\ qtyB' # qtyB => clearOrder]_vars

\* C13 witness: biweekly was switched on, meals were put in grid B, and biweekly was
\* switched off again with the meals still in grid B
C13_Witness ==
    /\ variant = "bundled" /\ ~useWeekB
    /\ qtyB["Wednesday"]["Veg"] = 2
    /\ name # <<>> /\ notes # <<>>

\* C14: a '+' or '-' press changes at most the pressed cell: the other cells of that grid,
\* the other grid, the weeks, the flag, name and notes stay as they were
C14_AdjustTouchesOneCell ==
    [][/\ \A c \in CellInputs, delta \in {-1, 1} :
             \/ /\ UNCHANGED <<weekVars, textVars>>
                /\ IF c[1] = "A" THEN qtyB' = qtyB ELSE qtyA' = qtyA
                /\ SlotGrid(c[1])'
                      = [SlotGrid(c[1]) EXCEPT ![c[2]][c[3]] = SlotGrid(c[1])'[c[2]][c[3]]]
             \/ ~PressQty(c[1], c[2], c[3], delta)
       /\ \A c \in FieldCellInputs, delta \in {-1, 1} :
             \/ /\ UNCHANGED <<week, vegan, lowCarb, name>>
                /\ order' = [order EXCEPT ![c[1]][c[2]] = order'[c[1]][c[2]]]
             \/ ~PressDayStepper(c[1], c[2], delta)]_vars

\* C14 witness: one cell of each grid was pressed while the other grid held meals
C14_Witness ==
    /\ variant \in TwoSlot /\ useWeekB
    /\ qtyA["Monday"]["Meat"] = 1
    /\ qtyB["Wednesday"]["Veg"] = 1
    /\ qtyA["Friday"]["Low Carb"] = 0
    /\ name # <<>>

\* the slot a week step or an open picker addresses, and the other one
SlotWeek(which) == IF which = "A" THEN weekA ELSE weekB
OtherWeek(which) == IF which = "A" THEN weekB ELSE weekA

EmptyCatalog == variant \in {"fetched", "bundled"} /\ WeekNumbers(Menus) = <<>>

\* C16: with an empty catalog every step to a week in 1..48 can be made and takes effect,
\* the week picker offers every week, and no pick of an offered week is refused
C16_EmptyCatalogUnconstrained ==
    /\ [](EmptyCatalog =>
            /\ variant = "fetched" /\ Mounted =>
                  \A delta \in {-1, 1} :
                     StepRequest("A", delta) \in WeekInputs \cap (1..MAX_WEEK)
                         => ENABLED (PressWeekStep("A", delta)
                                      /\ weekA' = StepRequest("A", delta))
            /\ variant = "bundled" =>
                  /\ weekPickerOpen = "none" => ENABLED openWeekPicker("A")
                  /\ weekPickerOpen = "A" =>
                        \A w \in WeekInputs \cap (1..MAX_WEEK) :
                           w \in PickerItems /\ ENABLED PressWeekItem(w))
    /\ [][EmptyCatalog =>
            /\ \A which \in {"A", "B"}, delta \in {-1, 1} :
                  PressWeekStep(which, delta) /\ StepRequest(which, delta) \in 1..MAX_WEEK
                      => alert' = "" /\ SlotWeek(which)' = StepRequest(which, delta)
            /\ \A which \in {"A", "B"}, w \in WeekInputs :
                  /\ weekPickerOpen = which /\ PressWeekItem(w)
                  /\ w \in 1..MAX_WEEK /\ ~PickerItemDisabled(w)
                  => alert' = "" /\ SlotWeek(which)' = w]_vars

\* C16 witness: the load failed although a menus file exists, and week A was stepped
\* from 1 to 3
C16_Witness ==
    /\ variant = "fetched" /\ menusLoaded /\ menusByWeek = NoMenus /\ menusJson # NoMenus
    /\ weekA = 3 /\ alert = ""

\* C17: the load always ends; once it has ended in a mounted component menusLoaded is
\* TRUE; a failed fetch (or unreadable body) falls back to the bundled file, and when
\* that fails too the catalog is the empty map
C17_LoadCompletes ==
    /\ <>(loadPc = "done")
    /\ <>(menusLoaded \/ cancelled)
    /\ [](loadPc = "done" /\ ~cancelled => menusLoaded)
    /\ [][/\ (FetchSettles(FALSE, TRUE) \/ JsonSettles(FALSE, TRUE)) /\ ~cancelled
             => menusLoaded' /\ menusByWeek' = menusJson
          /\ (FetchSettles(FALSE, FALSE) \/ JsonSettles(FALSE, FALSE)) /\ ~cancelled
             => menusLoaded' /\ menusByWeek' = NoMenus
          /\ JsonSettles(TRUE, TRUE) /\ ~cancelled
             => menusLoaded' /\ menusByWeek' = menusJson]_vars

\* C17 witness: the fetch and the bundled file both failed while the form was in use, and
\* the mounted component holds the empty catalog with menusLoaded set
C17_Witness ==
    /\ variant = "fetched" /\ loadPc = "done" /\ ~cancelled
    /\ menusLoaded /\ menusByWeek = NoMenus /\ menusJson # NoMenus
    /\ name # <<>> /\ useWeekB

\* C18: every send that passed its checks ends either with the URL opened or with a
\* "cannot open WhatsApp" alert, never with neither
C18_SendEndsOpenedOrReported ==
    [][sendPc # "idle" /\ sendPc' = "idle" => (opened' # (alert' \in CannotOpenTitles))]_vars

\* C19: one press issues at most one openURL call: the count is 0 until the call is
\* issued, 1 from then on, and once the call is out the press issues no other
C19_AtMostOneOpen ==
    /\ [](/\ opens \in {0, 1}
          /\ sendPc = "openURL" => opens = 1
          /\ sendPc \in {"canOpenURL", "canOpenURL2"} => opens = 0
          /\ opened => opens = 1)
    /\ [][/\ opens = 1 /\ sendPc # "idle" => opens' = 1 /\ sendPc' \in {"openURL", "idle"}
          /\ opens # opens' /\ sendPc = "idle"
                => \E os \in {"web", "android"} : PressSend(os)]_vars

\* C19 witness: the single openURL call of a press was rejected, the failure was
\* reported, and no other call was issued
C19_Witness ==
    /\ variant = "bundled" /\ useWeekB
    /\ sendPc = "idle" /\ opens = 1 /\ ~opened
    /\ alert = "Could not open WhatsApp"

\* the texts of the lines of a message, and the lines of one kind
LineTexts(lines) == {lines[i].text : i \in DOMAIN lines}
LinesOfKind(lines, kind) == {i \in DOMAIN lines : lines[i].kind = kind}

\* no meal is selected in any grid
EmptySession ==
    IF variant = "single" THEN order = emptyWeek
    ELSE qtyA = emptyWeekQuantities /\ qtyB = emptyWeekQuantities

\* a total of 0 meals and R0.00, on one line or on a meals line and a cost line
ReportsZeroTotal(lines) ==
    \/ "TOTAL: 0 meals · R0.00" \in LineTexts(lines)
    \/ {"Total meals: 0", "Total cost: R0.00"} \subseteq LineTexts(lines)
    \/ {"Total Meals: 0", "Total Cost: R0.00"} \subseteq LineTexts(lines)

\* C20: for a session with all quantities zero, totalMeals and totalCost are 0 and the
\* outbound message has no day line and a total of 0 meals and R0.00
C20_EmptySessionMessage ==
    EmptySession =>
        /\ totalMeals = 0 /\ totalCost = 0
        /\ LinesOfKind(outboundMessage, "day") = {}
        /\ ReportsZeroTotal(outboundMessage)

\* the day lines of a message, in the order they are printed
DayLineTexts(lines) ==
    LET days == SelectSeq(lines, LAMBDA l : l.kind = "day")
    IN [i \in DOMAIN days |-> days[i].text]

\* the days of a grid with a nonzero quantity, and the nonzero meal types of a day
DaysOrdered(grid, meals) ==
    SelectSeq(DAYS, LAMBDA d : \E m \in Range(meals) : grid[d][m] > 0)
MealsOrdered(row, meals) == SelectSeq(meals, LAMBDA m : row[m] > 0)

\* the day line a variant prints for a day with the given nonzero meal types
DayLineFor(day, row, meals) ==
    LET label(m) == CASE m = "meat" -> "Meat" [] m = "veg" -> "Veg" [] OTHER -> m
        part(m) == IF variant \in {"dropdown", "bundled"}
                   THEN ToString(row[m]) \o " " \o label(m)
                   ELSE "x" \o ToString(row[m]) \o " " \o label(m)
        parts == [i \in DOMAIN meals |-> part(meals[i])]
    IN CASE variant \in {"dropdown", "bundled"} -> "- " \o day \o ": " \o Join(parts, " + ")
         [] variant = "fetched" -> DAY_SHORT[day] \o ": " \o Join(parts, " ")
         [] OTHER -> day \o ": " \o Join(parts, " ")

\* one line for each day of the grid that has a nonzero quantity, Monday to Friday
DayLinesOfGrid(grid, meals) ==
    LET days == DaysOrdered(grid, meals)
    IN [i \in DOMAIN days |->
           DayLineFor(days[i], grid[days[i]], MealsOrdered(grid[days[i]], meals))]

\* C21: the day lines of the outbound message are, for week A and then for week B when
\* biweekly is enabled, one line for each day with a nonzero quantity, in the order Monday
\* to Friday, each listing exactly the nonzero meal types of the day with their quantities
C21_DayLinesMatchGrid ==
    DayLineTexts(outboundMessage) =
        IF variant = "single" THEN DayLinesOfGrid(order, <<"meat", "veg">>)
        ELSE DayLinesOfGrid(qtyA, MEAL_TYPES)
             \o (IF useWeekB THEN DayLinesOfGrid(qtyB, MEAL_TYPES) ELSE <<>>)

\* a text has a notes line
HasNotesLine(lines) == \E i \in DOMAIN lines : lines[i].kind = "notes"

\* the notes field holds something other than whitespace
NotesNotBlank == \E i \in DOMAIN notes : notes[i] \notin {" ", "\t", "\n"}

\* C22: the detailed summary and the outbound message have a notes line if and only if
\* the notes field is non-empty after trimming its surrounding whitespace
C22_NotesLineIffNotBlank ==
    /\ HasNotesLine(detailedSummary) <=> NotesNotBlank
    /\ HasNotesLine(outboundMessage) <=> NotesNotBlank

\* the pick asks slot `which` for the week the other slot holds
DuplicatePick(which, value) ==
    IF which = "A" THEN useWeekB /\ value = weekB ELSE value = weekA

\* C23: a pickWeek call rejected as a duplicate raises the "Not allowed" alert and leaves
\* weekA, weekB, the biweekly flag, both grids, name and notes unchanged and the picker
\* open on the same slot
C23_RejectedPickChangesNothing ==
    [][\A which \in {"A", "B"}, value \in WeekInputs :
          CallPickWeek(which, value) /\ DuplicatePick(which, value)
              => /\ alert' = "Not allowed"
                 /\ weekPickerOpen' = which
                 /\ UNCHANGED <<weekA, weekB, useWeekB, qtyA, qtyB, name, notes>>]_vars

\* C23 witness: a pick of week B for slot A was rejected in a session that has a name,
\* a meal in grid B and biweekly enabled; the picker is still open
C23_Witness ==
    /\ variant = "bundled" /\ alert = "Not allowed" /\ weekPickerOpen = "A"
    /\ useWeekB /\ name # <<>> /\ qtyB # emptyWeekQuantities

\* C24: in the fetched variant, with biweekly enabled and at least two available weeks, a
\* step of either slot onto an available week that the other slot holds ends with the
\* stepped slot on that week and the other slot on a different available week
C24_CollisionAutoResolves ==
    [][\A which \in {"A", "B"}, delta \in {-1, 1} :
          LET requested == clampWeek(StepRequest(which, delta))
          IN /\ PressWeekStep(which, delta)
             /\ useWeekB /\ Len(availableWeeks) >= 2
             /\ requested \in availableWeekSet /\ requested = OtherWeek(which)
             => /\ SlotWeek(which)' = requested
                /\ OtherWeek(which)' \in availableWeekSet
                /\ OtherWeek(which)' # requested
                /\ weekA' # weekB']_vars

\* C24 witness: with weeks 47 and 48 loaded and biweekly enabled, week B was stepped down
\* onto week A's 47 and week A moved to 48
C24_Witness ==
    /\ variant = "fetched" /\ menusLoaded /\ useWeekB /\ alert = ""
    /\ availableWeeks = <<47, 48>> /\ weekB = 47 /\ weekA = 48

\* the texts of the lines of one kind, in the order they are printed
TextsOfKind(lines, kind) ==
    LET sel == SelectSeq(lines, LAMBDA l : l.kind = kind)
    IN [i \in DOMAIN sel |-> sel[i].text]

\* the grids whose week block a text of the fetched variant prints: week A's first
PrintedGrids(lines) ==
    IF Len(TextsOfKind(lines, "week")) > 1 THEN <<qtyA, qtyB>>
    ELSE IF Len(TextsOfKind(lines, "week")) = 1 THEN <<qtyA>> ELSE <<>>

\* the meals and the cost of the quantities a text lists in its week blocks
ListedMeals(lines) ==
    LET grids == PrintedGrids(lines)
    IN SumOver([i \in DOMAIN grids |-> GridMeals(grids[i])], DOMAIN grids)
ListedCost(lines) ==
    LET grids == PrintedGrids(lines)
    IN SumOver([i \in DOMAIN grids |-> GridCost(grids[i], 1)], DOMAIN grids)

MealsAndCost(meals, cost) == ToString(meals) \o " meals · R" \o ToString(cost) \o ".00"

\* C25: in the fetched variant with at least one meal selected, the TOTAL line of the
\* detailed summary and of the outbound message states the meals (and their cost) of the
\* quantities listed in the week blocks of the same text, and the subtotals of the
\* detailed summary are those of the printed blocks
C25_TotalMatchesPrintedBlocks ==
    variant = "fetched" /\ hasAnySelections =>
        /\ TextsOfKind(outboundMessage, "total")
              = <<"TOTAL: " \o MealsAndCost(ListedMeals(outboundMessage),
                                            ListedCost(outboundMessage))>>
        /\ TextsOfKind(detailedSummary, "total")
              = <<"TOTAL: " \o MealsAndCost(ListedMeals(detailedSummary),
                                            ListedCost(detailedSummary))>>
        /\ TextsOfKind(detailedSummary, "weekTotal")
              = LET grids == PrintedGrids(detailedSummary)
                IN [i \in DOMAIN grids |->
                       "Subtotal: " \o MealsAndCost(GridMeals(grids[i]), GridCost(grids[i], 1))]
        /\ DayLineTexts(outboundMessage)
              = LET grids == PrintedGrids(outboundMessage)
                IN IF Len(grids) = 2
                   THEN DayLinesOfGrid(grids[1], MEAL_TYPES) \o DayLinesOfGrid(grids[2], MEAL_TYPES)
                   ELSE DayLinesOfGrid(grids[1], MEAL_TYPES)

\* a week number the dropdown variants accept: 1..48, or a week of the bundled catalog
ValidWeek(w) ==
    IF variant = "bundled" THEN w \in availableWeekSet ELSE w \in 1..48

\* the session passes the week validation of the dropdown variants
WeeksValid == ValidWeek(weekA) /\ (useWeekB => ValidWeek(weekB) /\ weekB # weekA)

\* C26: in the dropdown and bundled variants a press of the send button goes on to the
\* openURL calls only from a state with valid weeks; from any other state it raises an
\* alert, issues no openURL call and leaves none pending; an openURL call is issued only
\* by a send that passed the validation
C26_OpensOnlyFromValidWeeks ==
    [][(variant \in {"dropdown", "bundled"}) =>
          ((\A os \in {"web", "android"} :
               PressSend(os) =>
                   IF WeeksValid THEN alert' = "" /\ sendPc' # "idle"
                   ELSE alert' # "" /\ opens' = 0 /\ sendPc' = "idle")
           /\ (opens' > 0 /\ opens' # opens =>
                  (sendPc # "idle"
                   \/ (WeeksValid /\ \E os \in {"web", "android"} : PressSend(os)))))]_vars

\* C26 witness: the dropdown variant refused to send a biweekly order whose two weeks are
\* the same
C26_Witness ==
    /\ variant = "dropdown" /\ useWeekB /\ weekA = weekB
    /\ alert = "Week B must be different from Week A."
    /\ sendPc = "idle" /\ opens = 0

\* a press of week A's '+' (delta = 1) or '-' (delta = -1) button that moves week A
\* in the direction of the button is possible
CanStepWeekA(delta) ==
    ENABLED (PressWeekStep("A", delta) /\ (weekA' - weekA) * delta > 0)

\* C27: in the fetched variant with a loaded non-empty catalog, every available week in
\* 1..48 can be selected for week A with the '+' and '-' buttons: while week A is below
\* such a week a '+' press moves it up, and while it is above a '-' press moves it down
C27_EveryAvailableWeekSelectable ==
    variant = "fetched" /\ menusLoaded /\ Mounted /\ availableWeeks # <<>> =>
        \A w \in availableWeekSet \cap (1..48) :
            /\ w > weekA => CanStepWeekA(1)
            /\ w < weekA => CanStepWeekA(-1)

\* C28: in the bundled variant with a catalog that lists at least one week, weekA and
\* weekB are both available weeks in every reachable state
C28_BundledWeeksAvailable ==
    variant = "bundled" /\ WeekNumbers(menusJson) # <<>> =>
        weekA \in availableWeekSet /\ weekB \in availableWeekSet

\* the least element of a non-empty set of numbers
Least(S) == CHOOSE x \in S : \A y \in S : x <= y

\* the weeks a catalog lists
WeeksOf(menus) == Range(WeekNumbers(menus))

\* C29: when the load completes with a non-empty catalog, weekA becomes the smallest
\* available week, weekB the smallest available week other than weekA (weekA itself if
\* there is no other), biweekly is switched off if fewer than two weeks are available, and
\* both grids, name and notes are unchanged
C29_LoadSetsDefaultWeeks ==
    [][~menusLoaded /\ menusLoaded' /\ WeeksOf(menusByWeek') # {} =>
          /\ weekA' = Least(WeeksOf(menusByWeek'))
          /\ weekB' = IF WeeksOf(menusByWeek') = {weekA'} THEN weekA'
                      ELSE Least(WeeksOf(menusByWeek') \ {weekA'})
          /\ Cardinality(WeeksOf(menusByWeek')) < 2 => ~useWeekB'
          /\ Cardinality(WeeksOf(menusByWeek')) >= 2 => useWeekB' = useWeekB
          /\ UNCHANGED <<qtyA, qtyB, name, notes>>]_vars

\* C29 witness: a one-week catalog was loaded into a session that already had a name,
\* notes and a meal in grid B; both weeks are that week and biweekly is off
C29_Witness ==
    /\ menusLoaded /\ availableWeeks = <<3>>
    /\ weekA = 3 /\ weekB = 3 /\ ~useWeekB
    /\ name # <<>> /\ notes # <<>> /\ qtyB # emptyWeekQuantities

\* C30: once the component is unmounted, a step of loadMenus() (the fetch or res.json()
\* settling, with success or failure) changes neither menusByWeek nor menusLoaded nor
\* any other field of the session
C30_LateLoadChangesNothing ==
    [][cancelled /\ loadPc' # loadPc =>
          UNCHANGED <<menusByWeek, menusLoaded, weekA, weekB, useWeekB, qtyA, qtyB, name,
                      notes>>]_vars

\* C30 witness: the load of a two-week catalog ran to its end after the unmount and
\* nothing was committed
C30_Witness ==
    /\ cancelled /\ loadPc = "done" /\ ~menusLoaded /\ menusByWeek = NoMenus
    /\ menusJson = MenusTwoPlain /\ weekA = 1 /\ useWeekB /\ name # <<>>
====
